---- MODULE Spec2Model ----
(***************************************************************************)
(* Model of the image host fixer of src/fixer.js.  The file holds the     *)
(* strict k/n build (lines 1-364, repeated with doc comments at 366-784)  *)
(* and the full-prefix build (lines 1124-1515); `variant` selects which   *)
(* build's constants and candidate generator are in force.                *)
(***************************************************************************)
EXTENDS Integers, Sequences, FiniteSets, TLC

VARIABLES variant, started, img, listeners, serverCache, failedCache,
          processingImages, runs, timers, hist, genIn, genOut

vars == <<variant, started, img, listeners, serverCache, failedCache,
          processingImages, runs, timers, hist, genIn, genOut>>

Null == "null"                 \* null as a string value
Undef == "undefined"           \* a dataset entry never written
NoParse == [null |-> TRUE]     \* parseSubdomain returning null
NoUrl == [undefined |-> TRUE]  \* dataset.originalSrc never written
NoEnd == [none |-> TRUE]       \* no pass has ended yet
NoProbe == [none |-> TRUE]     \* no probe has settled yet
NoRevert == [none |-> TRUE]    \* checkImage has not reverted a swap yet

Variants == {"kn", "full"}

(***************************************************************************)
(* Configuration                                                           *)
(***************************************************************************)
MAX_ATTEMPTS_KN == 15
MAX_ATTEMPTS_FULL == 30
MAX_SERVER_NUM == 15
SWEEP_SPLIT == 5
ABORT_AFTER_KN == 6
ABORT_AFTER_FULL == 10
PROBE_TIMEOUT_KN == 3000
PROBE_TIMEOUT_FULL == 5000
RETRY_DELAY == 1000
CHECK_DELAY == 2000       \* processNewImage; init and the observer use 1000
ERROR_DELAY == 100
MUTATION_DELAY == 500

MAX_ATTEMPTS(v) == IF v = "kn" THEN MAX_ATTEMPTS_KN ELSE MAX_ATTEMPTS_FULL

ABORT_AFTER(v) == IF v = "kn" THEN ABORT_AFTER_KN ELSE ABORT_AFTER_FULL

PROBE_TIMEOUT(v) == IF v = "kn" THEN PROBE_TIMEOUT_KN ELSE PROBE_TIMEOUT_FULL

\* the setTimeout delays of the four kinds of timer
Delay == [check |-> CHECK_DELAY, error |-> ERROR_DELAY,
          retry |-> RETRY_DELAY, mutation |-> MUTATION_DELAY]

FALLBACK_PREFIXES == <<"n", "x", "t", "s", "w", "m", "c", "u", "k">>

FALLBACK_ROOTS_KN ==
  << <<"mbdny", "org">>, <<"mbrtz", "org">>, <<"bato", "to">>,
     <<"mbwbm", "org">>, <<"mbznp", "org">>, <<"mbqgu", "org">> >>

FALLBACK_ROOTS_FULL ==
  FALLBACK_ROOTS_KN \o
  << <<"mpfip", "org">>, <<"mpizz", "org">>, <<"mpmok", "org">>,
     <<"mpqom", "org">>, <<"mpqsc", "org">>, <<"mprnm", "org">>,
     <<"mpubn", "org">>, <<"mpujj", "org">>, <<"mpvim", "org">>,
     <<"mpypl", "org">> >>

FALLBACK_ROOTS(v) == IF v = "kn" THEN FALLBACK_ROOTS_KN ELSE FALLBACK_ROOTS_FULL

(***************************************************************************)
(* Addresses.  An address string scheme://<prefix><digits>.<root>.<tld>    *)
(* <path> is kept as its pieces; digits is the digit string as written     *)
(* and path the list of segments after each '/'.                           *)
(***************************************************************************)
Range(s) == {s[k] : k \in 1..Len(s)}

\* String.prototype.toLowerCase on the tokens the model uses
toLowerCase(s) ==
  CASE s = "K" -> "k"
    [] s = "N" -> "n"
    [] s = "MBDNY" -> "mbdny"
    [] s = "ORG" -> "org"
    [] OTHER -> s

IsLetters(s) == s \in Range(FALLBACK_PREFIXES) \cup {"K", "N", "cdn"}

\* parseInt(m[2], 10)
RECURSIVE parseInt(_)
parseInt(d) ==
  IF d = <<>> THEN 0 ELSE 10 * parseInt(SubSeq(d, 1, Len(d) - 1)) + d[Len(d)]

\* String(n)
RECURSIVE String(_)
String(n) == IF n < 10 THEN <<n>> ELSE String(n \div 10) \o <<n % 10>>

NoPadStart(d) == d

\* s.padStart(2, '0')
padStart2(d) == IF Len(d) < 2 THEN <<0>> \o d ELSE d

\* SUBDOMAIN_RE.test(src)
SUBDOMAIN_RE(u) ==
  /\ u.scheme \in {"http", "https", "HTTP", "HTTPS"}
  /\ IsLetters(u.prefix)
  /\ Len(u.digits) \in 1..3
  /\ toLowerCase(u.tld) \in {"org", "net", "to"}
  /\ u.root # ""

parseSubdomain(u) ==
  IF ~SUBDOMAIN_RE(u) THEN NoParse
  ELSE [prefix |-> toLowerCase(u.prefix),
        number |-> parseInt(u.digits),
        root   |-> toLowerCase(u.root),
        tld    |-> toLowerCase(u.tld),
        path   |-> u.path]

\* `https://${p}${String(n).padStart(2, '0')}.${r}.${t}${path}`
Render(p, n, r, t, path) ==
  [scheme |-> "https", prefix |-> p, digits |-> padStart2(String(n)),
   root |-> r, tld |-> t, path |-> path]

\* url.split('/').slice(0, 3).join('/') : scheme and host without the path
HostKey(u) == [scheme |-> u.scheme, prefix |-> u.prefix, digits |-> u.digits,
               root |-> u.root, tld |-> u.tld]

\* parsed.path.split('/').slice(0, 3).join('/') : "" and the first two segments
PathKey(path) == SubSeq(<<"">> \o path, 1, IF Len(path) + 1 < 3 THEN Len(path) + 1 ELSE 3)

ExactAddressKey(parsed) == <<parsed.root, <<"">> \o parsed.path>>

\* `${parsed.root}-${pathKey}`
GroupKey(parsed) == <<parsed.root, PathKey(parsed.path)>>

(***************************************************************************)
(* Candidate generation                                                    *)
(***************************************************************************)
Cand(u, priority) == [url |-> u, priority |-> priority]

\* candidates pushed by: for (i = lo; i <= hi; i++) if (i !== skip) add(p, i, r, t, priority)
Sweep(p, lo, hi, skip, r, t, path, priority) ==
  LET nums == SelectSeq([k \in 1..(hi - lo + 1) |-> lo + k - 1], LAMBDA n : n # skip)
  IN [k \in 1..Len(nums) |-> Cand(Render(p, nums[k], r, t, path), priority)]

\* the candidates of one priority class, in the order they were pushed
OfPriority(s, p) == SelectSeq(s, LAMBDA c : c.priority = p)

SortDescending(s) ==
  OfPriority(s, 5) \o OfPriority(s, 4) \o OfPriority(s, 3) \o
  OfPriority(s, 2) \o OfPriority(s, 1) \o OfPriority(s, 0)

\* Array.prototype.sort((a, b) => a.priority - b.priority): a stable sort on
\* the priority numbers 0..5 the generators use
SortByPriority(s) ==
  OfPriority(s, 0) \o OfPriority(s, 1) \o OfPriority(s, 2) \o
  OfPriority(s, 3) \o OfPriority(s, 4) \o OfPriority(s, 5)

KeepAll(s) == s

\* [...new Set(sorted)] : first occurrences, in order
Dedupe(s) ==
  LET first == SelectSeq([k \in 1..Len(s) |-> k],
                         LAMBDA k : \A j \in 1..(k - 1) : s[j] # s[k])
  IN [n \in 1..Len(first) |-> s[first[n]]]

SliceOneMore(s, n) == SubSeq(s, 1, IF Len(s) < n + 1 THEN Len(s) ELSE n + 1)

\* .slice(0, n)
Slice(s, n) == SubSeq(s, 1, IF Len(s) < n THEN Len(s) ELSE n)

Urls(cs) == [k \in 1..Len(cs) |-> cs[k].url]

\* The strict add(): prefixes other than 'k' and 'n' are dropped
AddKN(p, n, r, t, path, priority) ==
  IF p # "k" /\ p # "n" THEN <<>> ELSE <<Cand(Render(p, n, r, t, path), priority)>>

\* FALLBACK_ROOTS entries the forEach acts on
OtherRoots(roots, parsed) ==
  SelectSeq(roots, LAMBDA parts : Len(parts) = 2 /\ parts[1] # parsed.root)

\* mirror roots, strict build: 'n' on every other root
RootsKN(roots, parsed, priority) ==
  LET sel == OtherRoots(roots, parsed)
  IN [k \in 1..Len(sel) |->
        Cand(Render("n", parsed.number, sel[k][1], sel[k][2], parsed.path), priority)]

\* the candidates array of the strict build before sorting
RawCandidatesKN(parsed, cache) ==
  LET key == GroupKey(parsed)
      p0 == IF key \in DOMAIN cache
            THEN AddKN(cache[key].prefix, cache[key].number, cache[key].root,
                       cache[key].tld, parsed.path, 0)
            ELSE <<>>
      p1 == IF parsed.prefix = "k"
            THEN AddKN("n", parsed.number, parsed.root, parsed.tld, parsed.path, 1)
            ELSE AddKN("k", parsed.number, parsed.root, parsed.tld, parsed.path, 1)
      p2 == Sweep("n", 0, MAX_SERVER_NUM, parsed.number, parsed.root, parsed.tld,
                  parsed.path, 2)
      p4 == RootsKN(FALLBACK_ROOTS_KN, parsed, 4)
  IN p0 \o p1 \o p2 \o p4

generateCandidatesKN(parsed, cache) ==
  Slice(Dedupe(Urls(SortByPriority(RawCandidatesKN(parsed, cache)))), MAX_ATTEMPTS_KN)

\* other prefixes, full build
PrefixesFull(letters, parsed, priority) ==
  LET sel == SelectSeq(letters,
                       LAMBDA l : l # parsed.prefix /\ l # "k" /\ l # "n")
  IN [k \in 1..Len(sel) |->
        Cand(Render(sel[k], parsed.number, parsed.root, parsed.tld, parsed.path), priority)]

\* mirror roots, full build: own prefix, and 'n' too for a 'k' address
RootsFull(roots, parsed, priority) ==
  LET sel == OtherRoots(roots, parsed)
      own(k) == Cand(Render(parsed.prefix, parsed.number, sel[k][1], sel[k][2],
                            parsed.path), priority)
      alt(k) == Cand(Render("n", parsed.number, sel[k][1], sel[k][2],
                            parsed.path), priority)
  IN IF parsed.prefix = "k"
     THEN [n \in 1..(2 * Len(sel)) |->
             IF n % 2 = 1 THEN own((n + 1) \div 2) ELSE alt(n \div 2)]
     ELSE [n \in 1..Len(sel) |-> own(n)]

\* the candidates array of the full build before sorting
RawCandidatesFull(parsed, cache) ==
  LET key == GroupKey(parsed)
      p0 == IF key \in DOMAIN cache
            THEN <<Cand(Render(cache[key].prefix, cache[key].number, cache[key].root,
                               cache[key].tld, parsed.path), 0)>>
            ELSE <<>>
      p1 == IF parsed.prefix = "k"
            THEN <<Cand(Render("n", parsed.number, parsed.root, parsed.tld, parsed.path), 1),
                   Cand(Render("x", parsed.number, parsed.root, parsed.tld, parsed.path), 1),
                   Cand(Render("t", parsed.number, parsed.root, parsed.tld, parsed.path), 1)>>
            ELSE <<>>
      p2 == PrefixesFull(FALLBACK_PREFIXES, parsed, 2)
      p3 == Sweep(parsed.prefix, 0, IF SWEEP_SPLIT < MAX_SERVER_NUM THEN SWEEP_SPLIT
                                    ELSE MAX_SERVER_NUM,
                  parsed.number, parsed.root, parsed.tld, parsed.path, 3)
      p4 == RootsFull(FALLBACK_ROOTS_FULL, parsed, 4)
      p5 == Sweep(parsed.prefix, SWEEP_SPLIT + 1, MAX_SERVER_NUM, parsed.number,
                  parsed.root, parsed.tld, parsed.path, 5)
  IN p0 \o p1 \o p2 \o p3 \o p4 \o p5

generateCandidatesFull(parsed, cache) ==
  Slice(Dedupe(Urls(SortByPriority(RawCandidatesFull(parsed, cache)))), MAX_ATTEMPTS_FULL)

RawCandidates(v, parsed, cache) ==
  IF v = "kn" THEN RawCandidatesKN(parsed, cache) ELSE RawCandidatesFull(parsed, cache)

generateIgnoringCache(v, parsed, cache) ==
  IF v = "kn" THEN generateCandidatesKN(parsed, << >>)
  ELSE generateCandidatesFull(parsed, << >>)

generateCandidatesAnyPrefix(v, parsed, cache) == generateCandidatesFull(parsed, cache)

generateCandidates(v, parsed, cache) ==
  IF v = "kn" THEN generateCandidatesKN(parsed, cache)
  ELSE generateCandidatesFull(parsed, cache)

(***************************************************************************)
(* The page.  Imgs are the <img> elements; each page gives them their      *)
(* initial addresses.                                                      *)
(***************************************************************************)
Imgs == {1}

Path1 == <<"a", "b", "c", "1.jpg">>

Url(p, d, r, t, path) ==
  [scheme |-> "https", prefix |-> p, digits |-> d, root |-> r, tld |-> t, path |-> path]

UrlK03 == Url("k", <<0, 3>>, "mbdny", "org", Path1)
UrlN05 == Url("n", <<0, 5>>, "mbdny", "org", Path1)
UrlCdn == Url("cdn", <<>>, "example", "com", <<"logo.png">>)

\* the pages explored: the build that runs and the image the page holds
Scenarios ==
  { [variant |-> "kn",   src |-> <<UrlK03>>, srcset |-> << <<UrlK03>> >>],
    [variant |-> "kn",   src |-> <<UrlN05>>, srcset |-> << <<>> >>],
    [variant |-> "kn",   src |-> <<UrlCdn>>, srcset |-> << <<>> >>],
    [variant |-> "full", src |-> <<UrlN05>>, srcset |-> << <<>> >>] }

\* bounds of the exploration
MaxPending == 1       \* pending timers of one kind per image that are told apart
MaxPasses == 2        \* fixImage passes followed per image

Min(a, b) == IF a < b THEN a ELSE b

NewImg(src, srcset, load) ==
  [src |-> src, srcset |-> srcset, load |-> load,
   batoFixing |-> Undef, batoFixed |-> Undef, batoPreemptive |-> Undef,
   originalSrc |-> NoUrl, originalSrcset |-> <<>>]

NoTimers == [check |-> 0, error |-> 0, retry |-> 0, mutation |-> 0]

\* what has happened to an image so far: a fixImage call turned away during
\* the pass in flight, or after success; passes started and ended; retries
\* scheduled; how the latest pass ended, if it has; whether every probe
\* settled so far hit its deadline; the probe that settled last and how; the
\* src and srcset before the latest preemptive swap; whether the latest
\* revert by checkImage restored them and started a pass on them; whether
\* the latest fixImage call that got past the guards found no address to parse;
\* the hosts of the probes that have settled without a load
NoHist == [rejected |-> FALSE, rejectedDone |-> FALSE, retries |-> 0, passes |-> 0,
           ended |-> 0, lastEnd |-> NoEnd, onlyTimeouts |-> TRUE,
           lastProbe |-> NoProbe, swapped |-> NoUrl, lastRevert |-> NoRevert,
           unparsed |-> FALSE, failedProbes |-> {}]

\* the state the operations below transform
St == [img |-> img, listeners |-> listeners, serverCache |-> serverCache,
       failedCache |-> failedCache, processingImages |-> processingImages,
       runs |-> runs, timers |-> timers, hist |-> hist]

Becomes(s) ==
  /\ \A i \in DOMAIN s.hist : s.hist[i].passes <= MaxPasses
  /\ img' = s.img
  /\ listeners' = s.listeners
  /\ serverCache' = s.serverCache
  /\ failedCache' = s.failedCache
  /\ processingImages' = s.processingImages
  /\ runs' = s.runs
  /\ timers' = s.timers
  /\ hist' = s.hist

Broken(im) == im.load = "broken"      \* img.complete && img.naturalWidth === 0

Truthy(x) == x # Undef /\ x # ""     \* of a dataset string

HasSrcset(x) == x # <<>>              \* of a srcset string

RemoveAt(seq, k) == SubSeq(seq, 1, k - 1) \o SubSeq(seq, k + 1, Len(seq))

\* a timer of image i fires: it is no longer pending, and no longer among the
\* timers that were set before an outstanding probe was issued
Fire(s, i, kind) ==
  [s EXCEPT !.timers[i][kind] = @ - 1,
            !.runs = [j \in DOMAIN @ |->
                        [k \in DOMAIN @[j] |->
                           [@[j][k] EXCEPT !.older[i][kind] = IF @ > 0 THEN @ - 1 ELSE 0]]]]

\* the PROBE_TIMEOUT timer of run k of image i can be the next to fire: every
\* timer with a shorter delay that was set before the probe has fired
DeadlineReached(v, s, i, k) ==
  \A j \in DOMAIN s.timers : \A kind \in DOMAIN Delay :
    Delay[kind] < PROBE_TIMEOUT(v) => s.runs[i][k].older[j][kind] = 0

(***************************************************************************)
(* MutationObserver callback: one record per src/srcset attribute write    *)
(***************************************************************************)
RECURSIVE Observe(_, _, _)
Observe(s, i, records) ==
  IF records = 0 THEN s
  ELSE LET im == s.img[i]
           s1 == IF im.batoFixing # "done" /\ ~Truthy(im.batoFixed)
                 THEN [s EXCEPT !.img[i].batoFixing = "",
                                !.img[i].batoPreemptive = "",
                                !.timers[i].mutation = Min(@ + 1, MaxPending)]
                 ELSE s
       IN Observe(s1, i, records - 1)

(***************************************************************************)
(* rewriteSrcset                                                           *)
(***************************************************************************)
rewriteSrcset(srcset, workingUrl) ==
  IF ~HasSrcset(srcset) THEN <<>>
  ELSE LET wp == parseSubdomain(workingUrl)
       IN IF wp = NoParse THEN <<>>
          ELSE [k \in 1..Len(srcset) |->
                  IF SUBDOMAIN_RE(srcset[k])
                  THEN Render(wp.prefix, wp.number, wp.root, wp.tld, srcset[k].path)
                  ELSE srcset[k]]

(***************************************************************************)
(* probeUrl and fixImage                                                   *)
(***************************************************************************)
Outcomes == {"load", "empty", "error", "timeout"}

\* the synchronous part of probeUrl: reject at once or start the fetch
probeUrl(failed, url) == IF HostKey(url) \in failed THEN "cached-fail" ELSE "pending"

NoInFlightGuard(s, i) == FALSE

\* if (processingImages.has(img)) return;
InFlightGuard(s, i) == i \in s.processingImages

NoDoneGuard(s, i, isRetry) == s.img[i].batoFixing = "true" /\ ~isRetry

\* img.dataset.batoFixing === "done" || (img.dataset.batoFixing === "true" && !isRetry)
StatusGuard(s, i, isRetry) ==
  \/ s.img[i].batoFixing = "done"
  \/ (s.img[i].batoFixing = "true" /\ ~isRetry)

\* processingImages.delete(img) at the end of a pass, and the note of how it ended
Ended(s, i, pass, result) ==
  [s EXCEPT !.processingImages = @ \ {i},
            !.hist[i].ended = @ + 1,
            !.hist[i].rejected = FALSE,
            !.hist[i].lastEnd = [isRetry |-> pass.isRetry, lastError |-> pass.lastError,
                                 result |-> result,
                                 exhausted |-> pass.probes = Len(pass.candidates),
                                 broke |-> pass.broke,
                                 timeoutRun |-> pass.timeoutRun]]

\* img.dataset.batoFixing = "retry" and the RETRY_DELAY timer
ScheduleRetry(s, i, pass) ==
  Ended([s EXCEPT !.img[i].batoFixing = "retry",
                  !.timers[i].retry = Min(@ + 1, MaxPending),
                  !.hist[i].retries = @ + 1],
        i, pass, "retry")

MarkFailedApplyingLast(s, i, pass) ==
  Ended([s EXCEPT !.img[i].batoFixing = "failed",
                  !.img[i].src = pass.candidates[Len(pass.candidates)]], i, pass, "failed")

\* img.dataset.batoFixing = "failed"
MarkFailed(s, i, pass) ==
  Ended([s EXCEPT !.img[i].batoFixing = "failed"], i, pass, "failed")

FinishRetryOnEveryTimeout(s, i, pass) ==
  IF pass.lastError = "timeout"
  THEN ScheduleRetry(s, i, pass)
  ELSE MarkFailed(s, i, pass)

FinishRetryOnAnyError(s, i, pass) ==
  IF ~pass.isRetry /\ pass.lastError # Null
  THEN ScheduleRetry(s, i, pass)
  ELSE MarkFailed(s, i, pass)

\* the failure handling after the loop
FinishRetryWithoutError(s, i, pass) ==
  IF ~pass.isRetry /\ pass.lastError \in {"timeout", Null}
  THEN ScheduleRetry(s, i, pass)
  ELSE MarkFailed(s, i, pass)

Finish(s, i, pass) ==
  IF ~pass.isRetry /\ pass.lastError = "timeout"
  THEN ScheduleRetry(s, i, pass)
  ELSE MarkFailed(s, i, pass)

NoSkipIndex(failed, candidates, j) == IF j < Len(candidates) THEN j ELSE Len(candidates)

LastLiveIndex(failed, candidates, j) ==
  LET live == {n \in j..(Len(candidates) - 1) : HostKey(candidates[n + 1]) \notin failed}
  IN IF live = {} THEN Len(candidates) ELSE CHOOSE n \in live : \A m \in live : n >= m

\* the first index from j on whose host is not in the failure cache
\* (if (failedCache.has(serverPattern)) continue;), or the length if none
NextIndex(failed, candidates, j) ==
  LET live == {n \in j..(Len(candidates) - 1) : HostKey(candidates[n + 1]) \notin failed}
  IN IF live = {} THEN Len(candidates) ELSE CHOOSE n \in live : \A m \in live : n <= m

CaughtTimeoutOnly(e) == e = "timeout"

\* catch (e): the clause takes every rejection of the awaited probe
Caught(e) == TRUE

\* a rejection that leaves the try statement: the promise of fixImage rejects
\* with it, and nothing after the await runs
Uncaught(s, i, pass, e) ==
  [s EXCEPT !.hist[i].ended = @ + 1,
            !.hist[i].lastEnd = [isRetry |-> pass.isRetry, lastError |-> e,
                                 result |-> "rejected",
                                 exhausted |-> pass.probes = Len(pass.candidates),
                                 broke |-> FALSE,
                                 timeoutRun |-> pass.timeoutRun]]

\* the for loop from index j on, and its catch block; pass holds the locals
RECURSIVE Loop(_, _, _, _, _)
RECURSIVE Catch(_, _, _, _, _)
Loop(v, s, i, pass, j) ==
  LET n == NextIndex(s.failedCache, pass.candidates, j)
  IN IF n >= Len(pass.candidates) THEN Finish(s, i, pass)
     ELSE IF probeUrl(s.failedCache, pass.candidates[n + 1]) = "cached-fail"
          THEN Catch(v, s, i, [pass EXCEPT !.i = n], "cached-fail")
          ELSE [s EXCEPT !.runs[i] = Append(@, [pass EXCEPT !.i = n, !.probes = @ + 1,
                                                            !.older = s.timers])]

Catch(v, s, i, pass, e) ==
  LET p == [pass EXCEPT !.lastError = e,
                        !.timeoutRun = IF e = "timeout"
                                       THEN Min(@ + 1, ABORT_AFTER(v) + 1) ELSE 0]
  IN IF ~Caught(e) THEN Uncaught(s, i, pass, e)
     ELSE IF e = "timeout" /\ pass.i > ABORT_AFTER(v)
          THEN Finish(s, i, [p EXCEPT !.broke = TRUE])
     ELSE Loop(v, s, i, p, pass.i + 1)

SucceedWithFirst(s, i, pass) ==
  LET url == pass.candidates[1]
      s2 == Ended([s EXCEPT !.img[i].src = url,
                            !.img[i].load = "loading",
                            !.img[i].batoFixing = "done",
                            !.img[i].batoFixed = "true"],
                  i, pass, "done")
  IN Observe(s2, i, 1)

\* the success branch after await probeUrl(url)
SucceedKeyedByWinner(s, i, pass) ==
  LET url == pass.candidates[pass.i + 1]
      sp == parseSubdomain(url)
      s1 == IF sp # NoParse
            THEN [s EXCEPT !.serverCache =
                    [k \in DOMAIN @ \cup {GroupKey([sp EXCEPT !.path = pass.parsed.path])} |->
                       IF k = GroupKey([sp EXCEPT !.path = pass.parsed.path])
                       THEN [prefix |-> sp.prefix, number |-> sp.number,
                             root |-> sp.root, tld |-> sp.tld]
                       ELSE @[k]]]
            ELSE s
      new == rewriteSrcset(s.img[i].srcset, url)
      setSrcset == HasSrcset(s.img[i].srcset) /\ HasSrcset(new)
      s2 == Ended([s1 EXCEPT !.img[i].src = url,
                             !.img[i].load = "loading",
                             !.img[i].srcset = IF setSrcset THEN new ELSE @,
                             !.img[i].batoFixing = "done",
                             !.img[i].batoFixed = "true"],
                  i, pass, "done")
  IN Observe(s2, i, IF setSrcset THEN 2 ELSE 1)

Succeed(s, i, pass) ==
  LET url == pass.candidates[pass.i + 1]
      sp == parseSubdomain(url)
      s1 == IF sp # NoParse
            THEN [s EXCEPT !.serverCache =
                    [k \in DOMAIN @ \cup {GroupKey(pass.parsed)} |->
                       IF k = GroupKey(pass.parsed)
                       THEN [prefix |-> sp.prefix, number |-> sp.number,
                             root |-> sp.root, tld |-> sp.tld]
                       ELSE @[k]]]
            ELSE s
      new == rewriteSrcset(s.img[i].srcset, url)
      setSrcset == HasSrcset(s.img[i].srcset) /\ HasSrcset(new)
      s2 == Ended([s1 EXCEPT !.img[i].src = url,
                             !.img[i].load = "loading",
                             !.img[i].srcset = IF setSrcset THEN new ELSE @,
                             !.img[i].batoFixing = "done",
                             !.img[i].batoFixed = "true"],
                  i, pass, "done")
  IN Observe(s2, i, IF setSrcset THEN 2 ELSE 1)

fixImageRetryAfresh(v, s, i, isRetry) ==
  IF InFlightGuard(s, i) THEN [s EXCEPT !.hist[i].rejected = TRUE]
  ELSE IF StatusGuard(s, i, isRetry)
       THEN [s EXCEPT !.hist[i].rejectedDone = @ \/ s.img[i].batoFixing = "done"]
  ELSE LET s1 == [s EXCEPT !.img[i].batoFixing = "true",
                           !.failedCache = IF isRetry THEN {} ELSE @]
           parsed == parseSubdomain(s.img[i].src)
       IN IF parsed = NoParse THEN [s1 EXCEPT !.hist[i].unparsed = TRUE]
          ELSE Loop(v, [s1 EXCEPT !.processingImages = @ \cup {i},
                                  !.hist[i].unparsed = FALSE,
                                  !.hist[i].passes = @ + 1,
                                  !.hist[i].lastEnd = NoEnd],
                    i,
                    [isRetry |-> isRetry, parsed |-> parsed,
                     candidates |-> generateCandidates(v, parsed, s.serverCache),
                     i |-> 0, lastError |-> Null, probes |-> 0,
                     timeoutRun |-> 0, broke |-> FALSE,
                     fromFailed |-> s.img[i].batoFixing = "failed",
                     older |-> s.timers],
                    0)

\* fixImage(img, isRetry) up to its first await
fixImage(v, s, i, isRetry) ==
  IF InFlightGuard(s, i) THEN [s EXCEPT !.hist[i].rejected = TRUE]
  ELSE IF StatusGuard(s, i, isRetry)
       THEN [s EXCEPT !.hist[i].rejectedDone = @ \/ s.img[i].batoFixing = "done"]
  ELSE LET s1 == [s EXCEPT !.img[i].batoFixing = "true"]
           parsed == parseSubdomain(s.img[i].src)
       IN IF parsed = NoParse THEN [s1 EXCEPT !.hist[i].unparsed = TRUE]
          ELSE Loop(v, [s1 EXCEPT !.processingImages = @ \cup {i},
                                  !.hist[i].unparsed = FALSE,
                                  !.hist[i].passes = @ + 1,
                                  !.hist[i].lastEnd = NoEnd],
                    i,
                    [isRetry |-> isRetry, parsed |-> parsed,
                     candidates |-> generateCandidates(v, parsed, s.serverCache),
                     i |-> 0, lastError |-> Null, probes |-> 0,
                     timeoutRun |-> 0, broke |-> FALSE,
                     fromFailed |-> s.img[i].batoFixing = "failed",
                     older |-> s.timers],
                    0)

ResumeForgettingTimeouts(v, s, i, k, outcome) ==
  LET pass == s.runs[i][k]
      url == pass.candidates[pass.i + 1]
      s1 == [s EXCEPT !.runs[i] = RemoveAt(@, k),
                      !.hist[i].onlyTimeouts = @ /\ outcome = "timeout",
                      !.hist[i].lastProbe = [url |-> url, outcome |-> outcome],
                      !.hist[i].failedProbes =
                        IF outcome = "load" THEN @ ELSE @ \cup {HostKey(url)}]
  IN IF outcome = "load" THEN Succeed(s1, i, pass)
     ELSE IF outcome = "timeout" THEN Catch(v, s1, i, pass, outcome)
     ELSE Catch(v, [s1 EXCEPT !.failedCache = @ \cup {HostKey(url)}], i, pass, outcome)

\* the probe of run k of image i settles and fixImage resumes
Resume(v, s, i, k, outcome) ==
  LET pass == s.runs[i][k]
      url == pass.candidates[pass.i + 1]
      s1 == [s EXCEPT !.runs[i] = RemoveAt(@, k),
                      !.hist[i].onlyTimeouts = @ /\ outcome = "timeout",
                      !.hist[i].lastProbe = [url |-> url, outcome |-> outcome],
                      !.hist[i].failedProbes =
                        IF outcome = "load" THEN @ ELSE @ \cup {HostKey(url)}]
  IN IF outcome = "load" THEN Succeed(s1, i, pass)
     ELSE Catch(v, [s1 EXCEPT !.failedCache = @ \cup {HostKey(url)}], i, pass, outcome)

(***************************************************************************)
(* preemptiveFix, checkImage, processNewImage                              *)
(***************************************************************************)
\* the address preemptiveFix writes
PreemptiveUrl(v, s, parsed) ==
  LET key == GroupKey(parsed)
      hit == key \in DOMAIN s.serverCache
      p0 == IF hit THEN s.serverCache[key].prefix ELSE "n"
      p == IF v = "kn" /\ p0 # "k" /\ p0 # "n" THEN "n" ELSE p0
  IN Render(p,
            IF hit THEN s.serverCache[key].number ELSE parsed.number,
            IF hit THEN s.serverCache[key].root ELSE parsed.root,
            IF hit THEN s.serverCache[key].tld ELSE parsed.tld,
            parsed.path)

AppliesToAnyPrefix(s, i) == parseSubdomain(s.img[i].src) # NoParse

\* preemptiveFix returns true
PreemptiveApplies(s, i) ==
  LET parsed == parseSubdomain(s.img[i].src)
  IN parsed # NoParse /\ parsed.prefix = "k"

preemptiveFix(v, s, i) ==
  IF ~PreemptiveApplies(s, i) THEN s
  ELSE LET im == s.img[i]
           newUrl == PreemptiveUrl(v, s, parseSubdomain(im.src))
           new == rewriteSrcset(im.srcset, newUrl)
       IN [s EXCEPT !.img[i].originalSrc = im.src,
                    !.img[i].src = newUrl,
                    !.img[i].load = "loading",
                    !.img[i].originalSrcset = IF HasSrcset(im.srcset) THEN im.srcset ELSE @,
                    !.img[i].srcset = IF HasSrcset(im.srcset) /\ HasSrcset(new) THEN new ELSE @,
                    !.img[i].batoPreemptive = "true",
                    !.hist[i].swapped = [src |-> im.src, srcset |-> im.srcset]]

\* src/srcset attribute writes of preemptiveFix
PreemptiveWrites(v, s, i) ==
  IF ~PreemptiveApplies(s, i) THEN 0
  ELSE LET im == s.img[i]
           new == rewriteSrcset(im.srcset, PreemptiveUrl(v, s, parseSubdomain(im.src)))
       IN IF HasSrcset(im.srcset) /\ HasSrcset(new) THEN 2 ELSE 1

\* checkImage takes its revert branch
CheckReverts(s, i) == s.img[i].batoPreemptive = "true" /\ Broken(s.img[i])

checkImage(v, s, i) ==
  LET im == s.img[i]
  IN IF CheckReverts(s, i)
     THEN LET s1 == IF im.originalSrc # NoUrl
                    THEN [s EXCEPT !.img[i].src = im.originalSrc,
                                   !.img[i].load = "loading",
                                   !.img[i].srcset = IF HasSrcset(im.originalSrcset)
                                                     THEN im.originalSrcset ELSE @]
                    ELSE s
              s2 == fixImage(v, [s1 EXCEPT !.img[i].batoPreemptive = "failed"], i, FALSE)
              began == s2.hist[i].passes = s.hist[i].passes + 1
          IN [s2 EXCEPT !.hist[i].lastRevert =
                [restored |-> /\ s.hist[i].swapped # NoUrl
                              /\ s1.img[i].src = s.hist[i].swapped.src
                              /\ HasSrcset(s.hist[i].swapped.srcset)
                                   => s1.img[i].srcset = s.hist[i].swapped.srcset,
                 started |-> began,
                 onRestored |-> /\ began
                                /\ s2.runs[i] # <<>> =>
                                     s2.runs[i][Len(s2.runs[i])].parsed
                                       = parseSubdomain(s1.img[i].src)]]
     ELSE IF Broken(im) /\ im.batoFixing # "done" THEN fixImage(v, s, i, FALSE)
     ELSE s

\* src/srcset attribute writes of checkImage
CheckWrites(s, i) ==
  IF CheckReverts(s, i) /\ s.img[i].originalSrc # NoUrl
  THEN (IF HasSrcset(s.img[i].originalSrcset) THEN 2 ELSE 1)
  ELSE 0

processNewImage(v, s, i) ==
  LET s1 == preemptiveFix(v, s, i)
      s2 == IF PreemptiveApplies(s, i) THEN [s1 EXCEPT !.timers[i].check = Min(@ + 1, MaxPending)] ELSE s1
  IN [s2 EXCEPT !.listeners[i] = Min(@ + 1, MaxPending)]

(***************************************************************************)
(* Actions                                                                 *)
(***************************************************************************)
NoGen == [null |-> TRUE]

NoGenOut == [done |-> FALSE, list |-> <<>>]

RECURSIVE InitAll(_, _, _)
InitAll(v, s, todo) ==
  IF todo = {} THEN s
  ELSE LET i == CHOOSE x \in todo : \A y \in todo : x <= y
           s1 == processNewImage(v, s, i)
       IN InitAll(v, [s1 EXCEPT !.timers[i].check = Min(@ + 1, MaxPending)], todo \ {i})

Init ==
  /\ \E sc \in Scenarios :
       /\ variant = sc.variant
       /\ img = [i \in Imgs |-> NewImg(sc.src[i], sc.srcset[i], "loading")]
  /\ started = FALSE
  /\ listeners = [i \in Imgs |-> 0]
  /\ serverCache = << >>
  /\ failedCache = {}
  /\ processingImages = {}
  /\ runs = [i \in Imgs |-> <<>>]
  /\ timers = [i \in Imgs |-> NoTimers]
  /\ hist = [i \in Imgs |-> NoHist]
  /\ genIn = NoGen
  /\ genOut = NoGenOut

\* init(): scan the existing images, then register the observer
init ==
  /\ ~started
  /\ started' = TRUE
  /\ Becomes(InitAll(variant, St, Imgs))
  /\ UNCHANGED <<variant, genIn, genOut>>

\* the image element finishes loading its current src
ImgLoads(i) ==
  /\ img[i].load = "loading"
  /\ img' = [img EXCEPT ![i].load = "ok"]
  /\ UNCHANGED <<variant, started, listeners, serverCache, failedCache,
                 processingImages, runs, timers, hist, genIn, genOut>>

\* the image element fails to load: 'error' runs every listener, each sets a 100 ms timer
ImgFails(i) ==
  /\ img[i].load = "loading"
  /\ img' = [img EXCEPT ![i].load = "broken"]
  /\ timers' = [timers EXCEPT ![i].error = Min(@ + listeners[i], MaxPending)]
  /\ UNCHANGED <<variant, started, listeners, serverCache, failedCache,
                 processingImages, runs, hist, genIn, genOut>>

\* setTimeout(() => checkImage(img), ...)
CheckTimer(i) ==
  /\ timers[i].check > 0
  /\ LET s1 == Fire(St, i, "check")
     IN Becomes(Observe(checkImage(variant, s1, i), i, CheckWrites(s1, i)))
  /\ UNCHANGED <<variant, started, genIn, genOut>>

\* the 100 ms timer of the 'error' listener
ErrorTimer(i) ==
  /\ timers[i].error > 0
  /\ LET s1 == Fire(St, i, "error")
     IN Becomes(IF s1.img[i].batoFixing # "done" THEN fixImage(variant, s1, i, FALSE) ELSE s1)
  /\ UNCHANGED <<variant, started, genIn, genOut>>

RetryTimerUnchecked(i) ==
  /\ timers[i].retry > 0
  /\ Becomes(fixImage(variant, Fire(St, i, "retry"), i, TRUE))
  /\ UNCHANGED <<variant, started, genIn, genOut>>

\* the RETRY_DELAY timer set by a first pass that ended on a timeout
RetryTimer(i) ==
  /\ timers[i].retry > 0
  /\ LET s1 == Fire(St, i, "retry")
     IN Becomes(IF Broken(s1.img[i]) THEN fixImage(variant, s1, i, TRUE) ELSE s1)
  /\ UNCHANGED <<variant, started, genIn, genOut>>

\* the 500 ms timer of the MutationObserver callback
MutationTimer(i) ==
  /\ timers[i].mutation > 0
  /\ LET s1 == Fire(St, i, "mutation")
         s2 == processNewImage(variant, s1, i)
     IN Becomes(Observe(checkImage(variant, s2, i), i,
                        PreemptiveWrites(variant, s1, i) + CheckWrites(s2, i)))
  /\ UNCHANGED <<variant, started, genIn, genOut>>

\* the outstanding probe of run k of image i settles
ProbeSettles(i, k, outcome) ==
  /\ k \in 1..Len(runs[i])
  /\ outcome = "timeout" => DeadlineReached(variant, St, i, k)
  /\ Becomes(Resume(variant, St, i, k, outcome))
  /\ UNCHANGED <<variant, started, genIn, genOut>>

Next ==
  \/ init
  \/ \E i \in Imgs : ImgLoads(i)
  \/ \E i \in Imgs : ImgFails(i)
  \/ \E i \in Imgs : CheckTimer(i)
  \/ \E i \in Imgs : ErrorTimer(i)
  \/ \E i \in Imgs : RetryTimer(i)
  \/ \E i \in Imgs : MutationTimer(i)
  \/ \E i \in Imgs, k \in 1..2, o \in Outcomes : ProbeSettles(i, k, o)

Spec == Init /\ [][Next]_vars

\* a probe of image i is outstanding: the ProbeSettles steps of i are enabled
ProbeOutstanding(i) == runs[i] # <<>>

\* a ProbeSettles step of image i: the one step that settles a probe
ProbeSettled(i) == runs[i] # <<>> /\ hist'[i].lastProbe # hist[i].lastProbe

\* Every probe settles: the Image of probeUrl fires onload or onerror, or the
\* PROBE_TIMEOUT timer rejects. This is weak fairness of the ProbeSettles
\* steps of each image, WF_vars(\E k, o : ProbeSettles(i, k, o)), with their
\* enabling condition written as the state predicate ProbeOutstanding(i).
LiveSpec ==
  Spec /\ \A i \in Imgs : ([]<>(~ProbeOutstanding(i)) \/ []<><<ProbeSettled(i)>>_vars)

\* the program's part of a state: everything but the history kept about it
Prog(s) ==
  [img |-> s.img, listeners |-> s.listeners, serverCache |-> s.serverCache,
   failedCache |-> s.failedCache, processingImages |-> s.processingImages,
   runs |-> s.runs, timers |-> s.timers]

\* fixImage(img, isRetry) called now would return at a guard, leaving every
\* part of the program's state as it is
NoOp(i) == \A r \in BOOLEAN : Prog(fixImage(variant, St, i, r)) = Prog(St)

\* C1: a fixImage call made while a pass on the same image is in flight issues
\* no probe and changes no state, so an image has at most one pass in flight
C1_OneResolutionInFlight ==
  \A i \in Imgs :
    /\ Len(runs[i]) <= 1
    /\ (i \in processingImages) <=> (Len(runs[i]) = 1)
    /\ i \in processingImages => NoOp(i)

C1_Witness ==
  \E i \in Imgs : hist[i].rejected /\ i \in processingImages /\ Len(runs[i]) = 1

\* C2: an image whose probes all run into the deadline is scheduled at most
\* one retry and runs at most one pass after its first
C2_ExactlyOneRetry ==
  \A i \in Imgs :
    hist[i].onlyTimeouts => hist[i].retries <= 1 /\ hist[i].passes <= 2

\* C3: a first pass that ends without success on a last error other than a
\* timeout schedules no retry and marks the image Failed
C3_NoRetryOnOtherError ==
  [][\A i \in Imgs :
       (/\ hist'[i].ended = hist[i].ended + 1
        /\ ~hist'[i].lastEnd.isRetry
        /\ hist'[i].lastEnd.result # "done"
        /\ hist'[i].lastEnd.lastError # "timeout")
       => /\ hist'[i].retries = hist[i].retries
          /\ timers'[i].retry <= timers[i].retry
          /\ hist'[i].lastEnd.result = "failed"
          /\ i \notin processingImages'
          /\ (hist'[i].lastEnd.lastError # Null => img'[i].batoFixing = "failed")]_vars

C3_Witness ==
  \E i \in Imgs :
    /\ hist[i].lastEnd # NoEnd
    /\ ~hist[i].lastEnd.isRetry
    /\ hist[i].lastEnd.lastError = "error"
    /\ hist[i].lastEnd.result = "failed"
    /\ img[i].batoFixing = "failed"
    /\ hist[i].retries = 0
    /\ timers[i].retry = 0

\* C4: when every probe settles, an image in flight leaves the in-flight set
\* as Succeeded, RetryScheduled or Failed, and no pass issues more than
\* MAX_ATTEMPTS probes
C4_Terminates ==
  /\ [](\A i \in Imgs : \A k \in 1..Len(runs[i]) :
          runs[i][k].probes <= MAX_ATTEMPTS(variant))
  /\ \A i \in Imgs :
       (i \in processingImages)
         ~> (/\ i \notin processingImages
             /\ hist[i].lastEnd # NoEnd
             /\ hist[i].lastEnd.result \in {"done", "retry", "failed"})

C4_Witness ==
  \E i \in Imgs :
    /\ i \notin processingImages
    /\ hist[i].lastEnd # NoEnd
    /\ hist[i].lastEnd.exhausted

\* C5: once batoFixing is "done" it stays "done", no pass is started, and a
\* fixImage call with isRetry true or false changes nothing
C5_SucceededAbsorbing ==
  [][\A i \in Imgs :
       img[i].batoFixing = "done"
       => /\ NoOp(i)
          /\ img'[i].batoFixing = "done"
          /\ runs'[i] = <<>>
          /\ i \notin processingImages'
          /\ hist'[i].passes = hist[i].passes]_vars

C5_Witness ==
  \E i \in Imgs : hist[i].rejectedDone /\ img[i].batoFixing = "done"

\* C6: no probe is issued for an image that is marked Failed: no pass that
\* found batoFixing = "failed" on entry has a probe outstanding
C6_FailedTerminal ==
  \A i \in Imgs : \A k \in 1..Len(runs[i]) : ~runs[i][k].fromFailed

(***************************************************************************)
(* generateCandidates on its own: every parsed address and success-cache   *)
(* state of GenInputs is fed to the generator of the chosen build.         *)
(***************************************************************************)
GenParsed ==
  [prefix : {"k", "n", "x"}, number : {3, 7, 16},
   root : {"mbdny", "zzz"}, tld : {"org", "to"},
   path : {Path1, <<"x.jpg">>}]

\* entries fixImage can have stored: the fields of a candidate that loaded
GenCached(v) ==
  [prefix : IF v = "kn" THEN {"k", "n"} ELSE {"k", "n", "x"},
   number : {3, 9}, root : {"mbdny", "mbrtz"}, tld : {"org"}]

OtherGroup == <<"mbdny", <<"", "q", "r">> >>

GenCaches(v, parsed) ==
  {<< >>}
  \cup {[k \in {GroupKey(parsed)} |-> e] : e \in GenCached(v)}
  \cup {[k \in {OtherGroup} |-> e] : e \in {[prefix |-> "n", number |-> 9,
                                            root |-> "mbrtz", tld |-> "org"]}}

GenInit ==
  /\ variant \in Variants
  /\ started = FALSE
  /\ img = [i \in Imgs |-> NewImg(UrlK03, <<>>, "loading")]
  /\ listeners = [i \in Imgs |-> 0]
  /\ \E parsed \in GenParsed :
       /\ serverCache \in GenCaches(variant, parsed)
       /\ genIn = parsed
  /\ failedCache = {}
  /\ processingImages = {}
  /\ runs = [i \in Imgs |-> <<>>]
  /\ timers = [i \in Imgs |-> NoTimers]
  /\ hist = [i \in Imgs |-> NoHist]
  /\ genOut = NoGenOut

Generate ==
  /\ ~genOut.done
  /\ genOut' = [done |-> TRUE, list |-> generateCandidates(variant, genIn, serverCache)]
  /\ UNCHANGED <<variant, started, img, listeners, serverCache, failedCache,
                 processingImages, runs, timers, hist, genIn>>

GenNext == Generate

GenSpec == GenInit /\ [][GenNext]_vars

\* what was pushed for the generated list, in push order
GenRaw == RawCandidates(variant, genIn, serverCache)

\* for each returned address, the index in push order of its first push
FirstPush(raw, list) ==
  [a \in 1..Len(list) |->
     CHOOSE k \in 1..Len(raw) :
       /\ raw[k].url = list[a]
       /\ \A j \in 1..(k - 1) : raw[j].url # list[a]]

\* C7: generate returns at most MAX_ATTEMPTS candidates and no address twice
C7_BoundedNoDuplicates ==
  genOut.done =>
    /\ Len(genOut.list) <= MAX_ATTEMPTS(variant)
    /\ \A a, b \in 1..Len(genOut.list) : a # b => genOut.list[a] # genOut.list[b]

\* a generated list that was both deduplicated and truncated
C7_Witness ==
  /\ genOut.done
  /\ Len(genOut.list) = MAX_ATTEMPTS(variant)
  /\ LET raw == GenRaw
     IN \E a, b \in 1..Len(raw) : a # b /\ raw[a].url = raw[b].url

\* C8: along the returned list the priority class (that of an address's first
\* push) never decreases, and addresses of one class keep their push order
C8_PriorityOrder ==
  genOut.done =>
    LET raw == GenRaw
        fp == FirstPush(raw, genOut.list)
        pr == [a \in 1..Len(genOut.list) |-> raw[fp[a]].priority]
    IN \A a \in 1..(Len(genOut.list) - 1) :
         /\ pr[a] <= pr[a + 1]
         /\ pr[a] = pr[a + 1] => fp[a] < fp[a + 1]

\* a returned list that spans cache, swap, sweep and mirror-root classes
C8_Witness ==
  /\ genOut.done
  /\ LET raw == GenRaw
         fp == FirstPush(raw, genOut.list)
     IN {0, 1, 3, 4} \subseteq {raw[fp[a]].priority : a \in 1..Len(genOut.list)}

\* C9: with a success-cache entry for the address's group, the first candidate
\* is the cached host with the address's own path
C9_CachedFirst ==
  (genOut.done /\ GroupKey(genIn) \in DOMAIN serverCache) =>
    LET c == serverCache[GroupKey(genIn)]
    IN genOut.list[1] =
         [scheme |-> "https", prefix |-> c.prefix,
          digits |-> <<c.number \div 10, c.number % 10>>,
          root |-> c.root, tld |-> c.tld, path |-> genIn.path]

\* a list generated with a cache entry that differs from the plain k->n swap
C9_Witness ==
  /\ genOut.done
  /\ GroupKey(genIn) \in DOMAIN serverCache
  /\ serverCache[GroupKey(genIn)].number # genIn.number
  /\ serverCache[GroupKey(genIn)].root # genIn.root

\* the parsed form of https://k03.mbdny.org/a/b/c/1.jpg
ParsedK03 == [prefix |-> "k", number |-> 3, root |-> "mbdny", tld |-> "org", path |-> Path1]

H(p, d, r, t) == Url(p, d, r, t, Path1)

\* the list of the full build for k03.mbdny.org: n03, the other prefixes at 03,
\* the sweep k00..k05, then k03/n03 on the mirror roots up to MAX_ATTEMPTS
ExpectedFullK03 ==
  << H("n", <<0, 3>>, "mbdny", "org"),
     H("x", <<0, 3>>, "mbdny", "org"), H("t", <<0, 3>>, "mbdny", "org"),
     H("s", <<0, 3>>, "mbdny", "org"), H("w", <<0, 3>>, "mbdny", "org"),
     H("m", <<0, 3>>, "mbdny", "org"), H("c", <<0, 3>>, "mbdny", "org"),
     H("u", <<0, 3>>, "mbdny", "org"),
     H("k", <<0, 0>>, "mbdny", "org"), H("k", <<0, 1>>, "mbdny", "org"),
     H("k", <<0, 2>>, "mbdny", "org"), H("k", <<0, 4>>, "mbdny", "org"),
     H("k", <<0, 5>>, "mbdny", "org"),
     H("k", <<0, 3>>, "mbrtz", "org"), H("n", <<0, 3>>, "mbrtz", "org"),
     H("k", <<0, 3>>, "bato", "to"),   H("n", <<0, 3>>, "bato", "to"),
     H("k", <<0, 3>>, "mbwbm", "org"), H("n", <<0, 3>>, "mbwbm", "org"),
     H("k", <<0, 3>>, "mbznp", "org"), H("n", <<0, 3>>, "mbznp", "org"),
     H("k", <<0, 3>>, "mbqgu", "org"), H("n", <<0, 3>>, "mbqgu", "org"),
     H("k", <<0, 3>>, "mpfip", "org"), H("n", <<0, 3>>, "mpfip", "org"),
     H("k", <<0, 3>>, "mpizz", "org"), H("n", <<0, 3>>, "mpizz", "org"),
     H("k", <<0, 3>>, "mpmok", "org"), H("n", <<0, 3>>, "mpmok", "org"),
     H("k", <<0, 3>>, "mpqom", "org") >>

\* the list of the strict build for k03.mbdny.org: n03, then n00..n14 without n03
ExpectedStrictK03 ==
  << H("n", <<0, 3>>, "mbdny", "org"),
     H("n", <<0, 0>>, "mbdny", "org"), H("n", <<0, 1>>, "mbdny", "org"),
     H("n", <<0, 2>>, "mbdny", "org"), H("n", <<0, 4>>, "mbdny", "org"),
     H("n", <<0, 5>>, "mbdny", "org"), H("n", <<0, 6>>, "mbdny", "org"),
     H("n", <<0, 7>>, "mbdny", "org"), H("n", <<0, 8>>, "mbdny", "org"),
     H("n", <<0, 9>>, "mbdny", "org"), H("n", <<1, 0>>, "mbdny", "org"),
     H("n", <<1, 1>>, "mbdny", "org"), H("n", <<1, 2>>, "mbdny", "org"),
     H("n", <<1, 3>>, "mbdny", "org"), H("n", <<1, 4>>, "mbdny", "org") >>

\* generate was applied to k03.mbdny.org/a/b/c/1.jpg with an empty cache
GenK03Empty == genOut.done /\ genIn = ParsedK03 /\ serverCache = << >>

OtherPrefixAt03(u) ==
  u.prefix \notin {"k", "n"} /\ u.digits = <<0, 3>> /\ u.root = "mbdny"

IndexSweep(u) == u.digits # <<0, 3>> /\ u.root = "mbdny"

MirrorRoot(u) == u.digits = <<0, 3>> /\ u.root # "mbdny"

\* C10: for k03.mbdny.org/a/b/c/1.jpg and an empty cache the list starts with
\* n03, goes on with the other-prefix variants at index 03 (none where the
\* build knows only 'k' and 'n'), then index-sweep candidates, and ends with
\* mirror-root candidates
C10_AsStated ==
  GenK03Empty =>
    LET l == genOut.list
    IN /\ l[1] = H("n", <<0, 3>>, "mbdny", "org")
       /\ \E a, b \in 1..Len(l) :
            /\ a < b
            /\ \A k \in 2..a : OtherPrefixAt03(l[k])
            /\ \A k \in (a + 1)..b : IndexSweep(l[k])
            /\ \A k \in (b + 1)..Len(l) : MirrorRoot(l[k])
            /\ b < Len(l)

\* the two lists the builds return for that address
K03ExampleLists ==
  GenK03Empty =>
    genOut.list = IF variant = "full" THEN ExpectedFullK03 ELSE ExpectedStrictK03

(***************************************************************************)
(* The success cache across resources of one group                         *)
(***************************************************************************)
\* other resources of the group of parsed: same root, suffix and directory,
\* another file, any prefix and index
Siblings(parsed) ==
  [prefix : {"k", "n"} \cup (IF variant = "full" THEN {"x"} ELSE {}),
   number : {3, 7},
   root : {parsed.root}, tld : {parsed.tld},
   path : {SubSeq(parsed.path, 1, Len(parsed.path) - 1) \o <<"2.jpg">>}]

\* C11: when a pass on a resource of group G succeeds with candidate host A,
\* the success cache then maps G to A, and generate for every other resource
\* of G returns A's host with that resource's own path as first candidate
C11_SuccessSeedsSiblings ==
  [][\A i \in Imgs :
       (hist'[i].ended = hist[i].ended + 1 /\ hist'[i].lastEnd.result = "done")
       => LET pass == runs[i][1]
              A == pass.candidates[pass.i + 1]
              G == GroupKey(pass.parsed)
          IN /\ G \in DOMAIN serverCache'
             /\ serverCache'[G] = [prefix |-> A.prefix, number |-> parseInt(A.digits),
                                   root |-> A.root, tld |-> A.tld]
             /\ \A sib \in Siblings(pass.parsed) :
                  generateCandidates(variant, sib, serverCache')[1]
                    = [A EXCEPT !.path = sib.path]]_vars

\* a pass has succeeded and the cache now sends the sibling k07 elsewhere
\* than to its plain swap n07
C11_Witness ==
  \E i \in Imgs :
    /\ hist[i].lastEnd # NoEnd
    /\ hist[i].lastEnd.result = "done"
    /\ LET sib == [parseSubdomain(img[i].src) EXCEPT !.prefix = "k", !.number = 7,
                                                    !.path = <<"a", "b", "c", "2.jpg">>]
       IN generateCandidates(variant, sib, serverCache)[1].digits # <<0, 7>>

(***************************************************************************)
(* parseSubdomain and the address template on text.  A text is the         *)
(* sequence of its characters; SUBDOMAIN_RE is matched character by        *)
(* character.                                                              *)
(***************************************************************************)
UPPER == <<"A", "B", "C", "D", "E", "F", "G", "H", "I", "J", "K", "L", "M",
           "N", "O", "P", "Q", "R", "S", "T", "U", "V", "W", "X", "Y", "Z">>

LOWER == <<"a", "b", "c", "d", "e", "f", "g", "h", "i", "j", "k", "l", "m",
           "n", "o", "p", "q", "r", "s", "t", "u", "v", "w", "x", "y", "z">>

DIGITS == <<"0", "1", "2", "3", "4", "5", "6", "7", "8", "9">>

\* characters '.' does not match
LineTerminators == {"\n", "\r"}

IndexIn(c, alphabet) == CHOOSE k \in 1..Len(alphabet) : alphabet[k] = c

LowerChar(c) == IF c \in Range(UPPER) THEN LOWER[IndexIn(c, UPPER)] ELSE c

\* String.prototype.toLowerCase on a text
LowerText(s) == [k \in 1..Len(s) |-> LowerChar(s[k])]

\* [a-z] and \d and [a-z0-9\-] under the i flag
LetterClass == Range(LOWER) \cup Range(UPPER)

DigitClass == Range(DIGITS)

RootClass == LetterClass \cup DigitClass \cup {"-"}

\* the length of the longest run of characters of a class from position from
RunLength(txt, from, class) ==
  LET stops == {k \in from..(Len(txt) + 1) : k > Len(txt) \/ txt[k] \notin class}
  IN (CHOOSE k \in stops : \A m \in stops : k <= m) - from

\* txt has the literal lit at position from, letters compared without case
HasAt(txt, from, lit) ==
  /\ from + Len(lit) - 1 <= Len(txt)
  /\ \A k \in 1..Len(lit) : LowerChar(txt[from + k - 1]) = lit[k]

\* src.match(SUBDOMAIN_RE): the groups m[1]..m[5], or NoParse
MatchText(txt) ==
  LET a == IF HasAt(txt, 1, <<"h", "t", "t", "p", "s">>) THEN 6
           ELSE IF HasAt(txt, 1, <<"h", "t", "t", "p">>) THEN 5 ELSE 0
      b == a + 3                                   \* after "://"
      nl == RunLength(txt, b, LetterClass)
      c == b + nl
      nd == RunLength(txt, c, DigitClass)
      d == c + nd + 1                              \* after "."
      nr == RunLength(txt, d, RootClass)
      e == d + nr + 1                              \* after "."
      nt == IF HasAt(txt, e, <<"o", "r", "g">>) THEN 3
            ELSE IF HasAt(txt, e, <<"n", "e", "t">>) THEN 3
            ELSE IF HasAt(txt, e, <<"t", "o">>) THEN 2 ELSE 0
      f == e + nt
  IN IF /\ a > 0
        /\ HasAt(txt, a, <<":", "/", "/">>)
        /\ nl >= 1
        /\ nd \in 1..3
        /\ HasAt(txt, c + nd, <<".">>)
        /\ nr >= 1
        /\ HasAt(txt, d + nr, <<".">>)
        /\ nt > 0
        /\ HasAt(txt, f, <<"/">>)
        /\ \A k \in f..Len(txt) : txt[k] \notin LineTerminators
     THEN <<SubSeq(txt, b, c - 1), SubSeq(txt, c, c + nd - 1),
            SubSeq(txt, d, d + nr - 1), SubSeq(txt, e, f - 1),
            SubSeq(txt, f, Len(txt))>>
     ELSE NoParse

\* parseSubdomain(src) on a text
parseSubdomainText(txt) ==
  LET m == MatchText(txt)
  IN IF m = NoParse THEN NoParse
     ELSE [prefix |-> LowerText(m[1]),
           number |-> parseInt([k \in 1..Len(m[2]) |-> IndexIn(m[2][k], DIGITS) - 1]),
           root   |-> LowerText(m[3]),
           tld    |-> LowerText(m[4]),
           path   |-> m[5]]

\* `https://${p}${String(n).padStart(2, '0')}.${r}.${t}${path}` as a text
RenderText(p, n, r, t, path) ==
  LET ds == padStart2(String(n))
  IN <<"h", "t", "t", "p", "s", ":", "/", "/">> \o p
     \o [k \in 1..Len(ds) |-> DIGITS[ds[k] + 1]]
     \o <<".">> \o r \o <<".">> \o t \o path

\* the fields the round trip is tried on
ParseFields ==
  [prefix : {<<"k">>, <<"n">>, <<"x", "y">>},
   number : {0, 3, 9, 10, 99, 100, 999},
   root   : {<<"m", "b", "d", "n", "y">>, <<"a", "-", "9">>},
   tld    : {<<"o", "r", "g">>, <<"n", "e", "t">>, <<"t", "o">>},
   path   : {<<"/">>, <<"/", "a", "/", "1", ".", "j", "p", "g">>, <<"/", ".", "?", " ">>}]

\* the pieces addresses are put together from, well formed or not
ParsePieces ==
  [scheme : {<<"h", "t", "t", "p">>, <<"h", "t", "t", "p", "s">>,
             <<"H", "T", "T", "P", "S">>, <<"f", "t", "p">>},
   prefix : {<<"k">>, <<"K">>, <<>>, <<"k", "-">>},
   digits : {<<"3">>, <<"0", "3">>, <<"0", "0", "3">>, <<"0", "0", "0", "3">>,
             <<"1", "0">>, <<"9", "9", "9">>, <<"0">>, <<>>},
   root   : {<<"m", "b">>, <<"M", "b">>, <<>>, <<"a", ".", "b">>},
   tld    : {<<"o", "r", "g">>, <<"O", "R", "G">>, <<"c", "o", "m">>, <<"t", "o">>},
   path   : {<<>>, <<"/">>, <<"/", "a", "/", "1">>, <<"/", "a", "\n", "b">>}]

\* the address a record of pieces spells
Spell(pc) ==
  pc.scheme \o <<":", "/", "/">> \o pc.prefix \o pc.digits \o <<".">> \o pc.root
  \o <<".">> \o pc.tld \o pc.path

\* the pieces spell an address of the form SUBDOMAIN_RE describes
ValidPieces(pc) ==
  /\ LowerText(pc.scheme) \in {<<"h", "t", "t", "p">>, <<"h", "t", "t", "p", "s">>}
  /\ pc.prefix # <<>> /\ Range(pc.prefix) \subseteq LetterClass
  /\ Len(pc.digits) \in 1..3 /\ Range(pc.digits) \subseteq DigitClass
  /\ pc.root # <<>> /\ Range(pc.root) \subseteq RootClass
  /\ LowerText(pc.tld) \in {<<"o", "r", "g">>, <<"n", "e", "t">>, <<"t", "o">>}
  /\ pc.path # <<>> /\ pc.path[1] = "/"
  /\ Range(pc.path) \cap LineTerminators = {}

\* a digit text without its leading zeros, then filled up to two digits
RECURSIVE TwoDigits(_)
TwoDigits(d) ==
  IF Len(d) > 2 /\ d[1] = "0" THEN TwoDigits(Tail(d))
  ELSE IF Len(d) < 2 THEN <<"0">> \o d ELSE d

\* the canonical form of a well-formed address: https, host in lower case,
\* index in two digits (three from 100 on), path as it is
Canonical(pc) ==
  <<"h", "t", "t", "p", "s", ":", "/", "/">> \o LowerText(pc.prefix)
  \o TwoDigits(pc.digits) \o <<".">> \o LowerText(pc.root) \o <<".">>
  \o LowerText(pc.tld) \o pc.path

ParseInit ==
  /\ variant \in Variants
  /\ started = FALSE
  /\ img = [i \in Imgs |-> NewImg(UrlK03, <<>>, "loading")]
  /\ listeners = [i \in Imgs |-> 0]
  /\ serverCache = << >>
  /\ failedCache = {}
  /\ processingImages = {}
  /\ runs = [i \in Imgs |-> <<>>]
  /\ timers = [i \in Imgs |-> NoTimers]
  /\ hist = [i \in Imgs |-> NoHist]
  /\ \/ \E f \in ParseFields : genIn = [fields |-> f]
     \/ \E pc \in ParsePieces : genIn = [pieces |-> pc]
  /\ genOut = NoGenOut

\* render the fields, then parse the rendered address
RenderThenParse ==
  /\ ~genOut.done
  /\ "fields" \in DOMAIN genIn
  /\ LET f == genIn.fields
     IN genOut' = [done |-> TRUE,
                   list |-> <<parseSubdomainText(
                                RenderText(f.prefix, f.number, f.root, f.tld, f.path))>>]
  /\ UNCHANGED <<variant, started, img, listeners, serverCache, failedCache,
                 processingImages, runs, timers, hist, genIn>>

\* parse the address, then render the parsed fields
ParseThenRender ==
  /\ ~genOut.done
  /\ "pieces" \in DOMAIN genIn
  /\ LET p == parseSubdomainText(Spell(genIn.pieces))
     IN genOut' = [done |-> TRUE,
                   list |-> IF p = NoParse THEN <<NoParse>>
                            ELSE <<RenderText(p.prefix, p.number, p.root, p.tld, p.path)>>]
  /\ UNCHANGED <<variant, started, img, listeners, serverCache, failedCache,
                 processingImages, runs, timers, hist, genIn>>

ParseNext == RenderThenParse \/ ParseThenRender

ParseSpec == ParseInit /\ [][ParseNext]_vars

\* C12: parsing the address rendered from fields gives back those fields, and
\* rendering the fields parsed from a well-formed address gives its canonical
\* form
C12_ParseRenderInverse ==
  genOut.done =>
    /\ "fields" \in DOMAIN genIn => genOut.list[1] = genIn.fields
    /\ ("pieces" \in DOMAIN genIn /\ ValidPieces(genIn.pieces))
         => genOut.list[1] = Canonical(genIn.pieces)

\* a well-formed address that is not in canonical form has been parsed and
\* rendered
C12_Witness ==
  /\ genOut.done
  /\ "pieces" \in DOMAIN genIn
  /\ ValidPieces(genIn.pieces)
  /\ Spell(genIn.pieces) # Canonical(genIn.pieces)
  /\ genOut.list[1] # NoParse

(***************************************************************************)
(* The resolve loop, probe by probe                                        *)
(***************************************************************************)
\* the fields serverCache.set stores for an address
CacheEntry(u) ==
  [prefix |-> toLowerCase(u.prefix), number |-> parseInt(u.digits),
   root |-> toLowerCase(u.root), tld |-> toLowerCase(u.tld)]

\* C13: the address a pass writes is the candidate whose probe has just
\* succeeded, every candidate before it in the list having failed or been
\* skipped; with that write the pass ends: no further probe, the success
\* cache of the group holds the address, the image is Succeeded and out of
\* the in-flight set.  A probe that fails writes no address.
C13_FirstWorkingCandidate ==
  [][\A i \in Imgs :
       /\ ProbeSettled(i) =>
            LET pass == runs[i][1]
                u == pass.candidates[pass.i + 1]
            IN /\ hist'[i].lastProbe.url = u
               /\ \A j \in 1..pass.i : HostKey(pass.candidates[j]) \in failedCache
               /\ hist'[i].lastProbe.outcome = "load" =>
                    /\ img'[i].src = u
                    /\ runs'[i] = <<>>
                    /\ GroupKey(pass.parsed) \in DOMAIN serverCache'
                    /\ serverCache'[GroupKey(pass.parsed)] = CacheEntry(u)
                    /\ img'[i].batoFixing = "done"
                    /\ i \notin processingImages'
               /\ hist'[i].lastProbe.outcome # "load" =>
                    /\ img'[i].src = img[i].src
                    /\ img'[i].batoFixing # "done"
                    /\ serverCache' = serverCache
       /\ (img'[i].batoFixing = "done" /\ img[i].batoFixing # "done")
            => ProbeSettled(i) /\ hist'[i].lastProbe.outcome = "load"]_vars

\* a pass has succeeded on a candidate that was not the first of its list,
\* after an earlier probe of the pass failed
C13_Witness ==
  \E i \in Imgs :
    /\ hist[i].lastEnd # NoEnd
    /\ hist[i].lastEnd.result = "done"
    /\ hist[i].lastEnd.lastError \in {"error", "empty", "timeout"}
    /\ hist[i].lastProbe.outcome = "load"
    /\ img[i].src = hist[i].lastProbe.url
    /\ failedCache # {}

\* C14: an image never has two probes outstanding, and a candidate is probed
\* only when every candidate before it in the list has settled as failed or
\* was skipped as known dead: a probe is issued either at the start of a pass
\* or in the step that settles the probe before it, further down the list
C14_SequentialProbes ==
  /\ [](\A i \in Imgs :
          /\ Len(runs[i]) <= 1
          /\ \A k \in 1..Len(runs[i]) : \A j \in 1..runs[i][k].i :
               HostKey(runs[i][k].candidates[j]) \in failedCache)
  /\ [][\A i \in Imgs :
          (runs'[i] # <<>> /\ (runs[i] = <<>> \/ runs'[i][1].i # runs[i][1].i))
          => \/ runs[i] = <<>> /\ hist'[i].passes = hist[i].passes + 1
             \/ /\ runs[i] # <<>>
                /\ ProbeSettled(i)
                /\ hist'[i].lastProbe.url = runs[i][1].candidates[runs[i][1].i + 1]
                /\ hist'[i].lastProbe.outcome # "load"
                /\ runs'[i][1].i > runs[i][1].i
                /\ runs'[i][1].candidates = runs[i][1].candidates]_vars

\* a probe is outstanding for a candidate further down the list, after the
\* probe of an earlier candidate of the same pass has settled
C14_Witness ==
  \E i \in Imgs :
    /\ Len(runs[i]) = 1
    /\ runs[i][1].i >= 2
    /\ runs[i][1].probes >= 2
    /\ hist[i].lastProbe # NoProbe
    /\ hist[i].lastProbe.url = runs[i][1].candidates[runs[i][1].i]

\* C15: whatever way a probe settles, the pass either goes on to its next
\* probe or ends as Succeeded, RetryScheduled or Failed, out of the in-flight
\* set; no pass ends with a rejection
C15_NoErrorEscapes ==
  /\ [](\A i \in Imgs :
          hist[i].lastEnd # NoEnd => hist[i].lastEnd.result \in {"done", "retry", "failed"})
  /\ [][\A i \in Imgs :
          /\ hist'[i].ended # hist[i].ended
               => i \notin processingImages' /\ runs'[i] = <<>>
          /\ ProbeSettled(i) =>
               \/ /\ hist'[i].ended = hist[i].ended
                  /\ i \in processingImages'
                  /\ Len(runs'[i]) = 1
               \/ /\ hist'[i].ended = hist[i].ended + 1
                  /\ img'[i].batoFixing = hist'[i].lastEnd.result]_vars

\* passes have ended after a degenerate image, after a load error and after
\* a deadline
C15_Witness ==
  \E i \in Imgs :
    /\ hist[i].lastEnd # NoEnd
    /\ hist[i].lastEnd.lastError = "empty"
    /\ hist[i].lastEnd.result = "failed"
    /\ i \notin processingImages
    /\ ~hist[i].onlyTimeouts

\* C16: no fetch starts for an address whose host is in the failure cache at
\* that moment: a probe is issued only for a host that is not in it, a pass
\* never hands a known-dead host to probeUrl (it never sees 'cached-fail'),
\* and probeUrl itself answers 'cached-fail' at once for every such host
C16_NoFetchForFailedHost ==
  /\ [](\A i \in Imgs :
          /\ \A k \in 1..Len(runs[i]) :
               /\ runs[i][k].lastError # "cached-fail"
               /\ \A j \in 1..Len(runs[i][k].candidates) :
                    HostKey(runs[i][k].candidates[j]) \in failedCache
                    <=> probeUrl(failedCache, runs[i][k].candidates[j]) = "cached-fail"
          /\ hist[i].lastEnd # NoEnd => hist[i].lastEnd.lastError # "cached-fail")
  /\ [][\A i \in Imgs :
          (runs'[i] # <<>> /\ (runs[i] = <<>> \/ runs'[i][1].i # runs[i][1].i))
          => LET u == runs'[i][1].candidates[runs'[i][1].i + 1]
             IN /\ HostKey(u) \notin failedCache'
                /\ probeUrl(failedCache', u) = "pending"]_vars

\* a pass has a probe outstanding after passing over candidates whose hosts
\* were in the failure cache
C16_Witness ==
  \E i \in Imgs :
    /\ Len(runs[i]) = 1
    /\ runs[i][1].probes = 1
    /\ runs[i][1].i >= 1
    /\ runs[i][1].lastError = Null
    /\ \A j \in 1..runs[i][1].i : HostKey(runs[i][1].candidates[j]) \in failedCache

\* C17: the failure cache starts empty and changes only when a probe settles:
\* a probe ending degenerate, in a load error or at its deadline adds its
\* host, a probe that loads adds nothing, and no host is ever removed
C17_FailureCacheExact ==
  /\ failedCache = {}
  /\ [][/\ failedCache \subseteq failedCache'
        /\ \A i \in Imgs :
             ProbeSettled(i) =>
               LET u == runs[i][1].candidates[runs[i][1].i + 1]
               IN failedCache' = IF hist'[i].lastProbe.outcome = "load"
                                 THEN failedCache
                                 ELSE failedCache \cup {HostKey(u)}
        /\ (\A i \in Imgs : ~ProbeSettled(i)) => failedCache' = failedCache]_vars

\* three probes or more have failed and one has loaded since, leaving its own
\* host out of the failure cache
C17_Witness ==
  \E i \in Imgs :
    /\ Cardinality(failedCache) >= 3
    /\ hist[i].lastProbe # NoProbe
    /\ hist[i].lastProbe.outcome = "load"
    /\ HostKey(hist[i].lastProbe.url) \notin failedCache

(***************************************************************************)
(* preemptiveFix on its own: one call on an image of PreSrcs under a        *)
(* success cache of PreCaches                                               *)
(***************************************************************************)
PreSrcs ==
  {UrlK03, UrlN05, UrlCdn,
   Url("K", <<3>>, "MBDNY", "ORG", Path1),
   Url("k", <<0, 7>>, "mbdny", "org", <<"a", "b", "c", "2.jpg">>),
   Url("x", <<0, 3>>, "mbdny", "org", Path1)}

PreCaches(v) ==
  {<< >>}
  \cup {[k \in {key} |-> e] : key \in {GroupKey(ParsedK03), OtherGroup}, e \in GenCached(v)}

PreInit ==
  /\ variant \in Variants
  /\ started = FALSE
  /\ \E src \in PreSrcs : \E srcset \in {<<>>, <<src>>, <<src, UrlCdn>>} :
       img = [i \in Imgs |-> NewImg(src, srcset, "loading")]
  /\ listeners = [i \in Imgs |-> 0]
  /\ serverCache \in PreCaches(variant)
  /\ failedCache = {}
  /\ processingImages = {}
  /\ runs = [i \in Imgs |-> <<>>]
  /\ timers = [i \in Imgs |-> NoTimers]
  /\ hist = [i \in Imgs |-> NoHist]
  /\ genIn = NoGen
  /\ genOut = NoGenOut

\* preemptiveFix(img): genIn keeps the image as it was, genOut the value returned
PreemptiveCall ==
  /\ ~genOut.done
  /\ \E i \in Imgs :
       /\ genIn' = img[i]
       /\ genOut' = [done |-> TRUE, list |-> <<PreemptiveApplies(St, i)>>]
       /\ Becomes(preemptiveFix(variant, St, i))
  /\ UNCHANGED <<variant, started>>

PreNext == PreemptiveCall

PreSpec == PreInit /\ [][PreNext]_vars

\* the address preemptiveFix is to put in place of a 'k' address: the cached
\* host of its group if there is one, else the same host under 'n'
SwapTarget(u, cache) ==
  LET key == <<toLowerCase(u.root), PathKey(u.path)>>
  IN IF key \in DOMAIN cache
     THEN [scheme |-> "https", prefix |-> cache[key].prefix,
           digits |-> padStart2(String(cache[key].number)),
           root |-> cache[key].root, tld |-> cache[key].tld, path |-> u.path]
     ELSE [scheme |-> "https", prefix |-> "n",
           digits |-> padStart2(String(parseInt(u.digits))),
           root |-> toLowerCase(u.root), tld |-> toLowerCase(u.tld), path |-> u.path]

C19_RevertThenResolve ==
  \A i \in Imgs :
    hist[i].lastRevert # NoRevert
    => /\ hist[i].lastRevert.restored
       /\ hist[i].lastRevert.started
       /\ hist[i].lastRevert.onRestored

\* the values are restored at every revert
RevertRestores ==
  \A i \in Imgs : hist[i].lastRevert # NoRevert => hist[i].lastRevert.restored

\* the probes outstanding in a list of runs: pass, position and locals, without
\* the note of the timers that were pending when the probe was issued
Probing(rs) == [k \in 1..Len(rs) |-> [rs[k] EXCEPT !.older = [j \in Imgs |-> NoTimers]]]

\* C20: when the retry timer fires, a retry pass starts only if the image is
\* broken at that moment; for an image that is loaded or loading the step
\* issues no probe and leaves the image, the caches and the in-flight set as
\* they are.  No other step starts a retry pass.
C20_RetryRevalidates ==
  [][\A i \in Imgs :
       /\ timers'[i].retry < timers[i].retry =>
            /\ ~Broken(img[i]) =>
                 /\ img'[i] = img[i]
                 /\ Probing(runs'[i]) = Probing(runs[i])
                 /\ hist'[i].passes = hist[i].passes
                 /\ serverCache' = serverCache
                 /\ failedCache' = failedCache
                 /\ processingImages' = processingImages
            /\ hist'[i].passes # hist[i].passes => Broken(img[i])
       /\ (runs'[i] # <<>> /\ runs'[i][1].isRetry /\ hist'[i].passes # hist[i].passes)
            => timers'[i].retry < timers[i].retry /\ Broken(img[i])]_vars

\* the retry timer has fired on an image that had healed: the retry was
\* scheduled, no timer is pending, no pass has started since, the image is
\* loaded
C20_Witness ==
  \E i \in Imgs :
    /\ hist[i].lastEnd # NoEnd
    /\ hist[i].lastEnd.result = "retry"
    /\ hist[i].retries = 1
    /\ timers[i].retry = 0
    /\ img[i].load = "ok"
    /\ img[i].batoFixing = "retry"

(***************************************************************************)
(* How passes end                                                          *)
(***************************************************************************)
\* C21: a pass breaks out of its loop, leaving candidates untried, only on a
\* timeout that completes a run of more than ABORT_AFTER consecutive probes
\* of the pass ending in timeout; a load error or a degenerate image never
\* breaks the loop
C21_AbortAfterTimeoutRun ==
  \A i \in Imgs :
    (hist[i].lastEnd # NoEnd /\ hist[i].lastEnd.broke)
    => /\ hist[i].lastEnd.lastError = "timeout"
       /\ hist[i].lastEnd.timeoutRun > ABORT_AFTER(variant)

\* the loop is broken by timeouts only
BreakOnTimeoutOnly ==
  \A i \in Imgs :
    (hist[i].lastEnd # NoEnd /\ hist[i].lastEnd.broke)
    => hist[i].lastEnd.lastError = "timeout"

\* C22: a pass started with isRetry = true that ends without success marks
\* the image Failed and schedules no retry, whatever its last error,
\* timeout included
C22_RetryPassNeverRetries ==
  [][\A i \in Imgs :
       (/\ hist'[i].ended = hist[i].ended + 1
        /\ hist'[i].lastEnd.isRetry
        /\ hist'[i].lastEnd.result # "done")
       => /\ hist'[i].lastEnd.result = "failed"
          /\ img'[i].batoFixing = "failed"
          /\ hist'[i].retries = hist[i].retries
          /\ timers'[i].retry <= timers[i].retry
          /\ i \notin processingImages']_vars

\* a retry pass has ended on a timeout and the image is Failed, with no
\* retry timer pending
C22_Witness ==
  \E i \in Imgs :
    /\ hist[i].lastEnd # NoEnd
    /\ hist[i].lastEnd.isRetry
    /\ hist[i].lastEnd.lastError = "timeout"
    /\ hist[i].lastEnd.result = "failed"
    /\ img[i].batoFixing = "failed"
    /\ timers[i].retry = 0

\* C23: after a fixImage call that found the address unparseable the image
\* is out of the in-flight set with no probe issued, it is Idle (batoFixing
\* not marked), and a further fixImage call on it gets past the guards
C23_ParseFailureToIdle ==
  \A i \in Imgs :
    hist[i].unparsed
    => /\ i \notin processingImages
       /\ runs[i] = <<>>
       /\ hist[i].passes = 0
       /\ img[i].batoFixing # "true"
       /\ ~StatusGuard(St, i, FALSE)

\* such a call issues no probe and leaves the in-flight set without the image
ParseFailureNoProbe ==
  \A i \in Imgs :
    hist[i].unparsed => i \notin processingImages /\ runs[i] = <<>> /\ hist[i].passes = 0

\* C24: a pass that ends without a probe having loaded writes neither src nor
\* srcset nor the success cache: no fixImage call writes them before its
\* first await, and no step in which a probe settles other than by loading
\* changes them, whether the pass goes on or ends as RetryScheduled or Failed
C24_FailedPassWritesNothing ==
  /\ [](\A i \in Imgs : \A r \in BOOLEAN :
          LET s == fixImage(variant, St, i, r)
          IN /\ s.img[i].src = img[i].src
             /\ s.img[i].srcset = img[i].srcset
             /\ s.serverCache = serverCache)
  /\ [][\A i \in Imgs :
          (ProbeSettled(i) /\ hist'[i].lastProbe.outcome # "load")
          => /\ img'[i].src = img[i].src
             /\ img'[i].srcset = img[i].srcset
             /\ serverCache' = serverCache
             /\ hist'[i].ended # hist[i].ended
                  => hist'[i].lastEnd.result \in {"retry", "failed"}]_vars

\* a pass on an image with a srcset has tried every candidate and ended
\* Failed
C24_Witness ==
  \E i \in Imgs :
    /\ hist[i].lastEnd # NoEnd
    /\ hist[i].lastEnd.result = "failed"
    /\ hist[i].lastEnd.exhausted
    /\ HasSrcset(img[i].srcset)
    /\ hist[i].lastProbe # NoProbe
    /\ hist[i].lastProbe.outcome # "load"

(***************************************************************************)
(* probeUrl on its own: one call, with the events of its Image and of its   *)
(* deadline timer.  genIn is the call, genOut the promise and the closure:  *)
(* done/list the settled outcome, timedOut the flag, timer and fetch the    *)
(* state of setTimeout and of the Image.                                    *)
(***************************************************************************)
ProbeUrls ==
  {Url("n", <<0, 3>>, "mbdny", "org", Path1),
   Url("k", <<0, 3>>, "mbdny", "org", Path1),
   Url("n", <<0, 3>>, "mbrtz", "org", Path1)}

ProbeIdle == [done |-> FALSE, list |-> <<>>, called |-> FALSE, timedOut |-> FALSE,
              timer |-> "none", fetch |-> "none"]

\* resolve(true) or reject(reason): only the first call settles the promise
Settle(out, o) == IF out.done THEN out ELSE [out EXCEPT !.done = TRUE, !.list = <<o>>]

KeepTimer(timer) == timer

\* clearTimeout(t)
clearTimeout(timer) == IF timer = "pending" THEN "cleared" ELSE timer

ProbeInit ==
  /\ variant \in Variants
  /\ started = FALSE
  /\ img = [i \in Imgs |-> NewImg(UrlK03, <<>>, "loading")]
  /\ listeners = [i \in Imgs |-> 0]
  /\ serverCache = << >>
  /\ failedCache \in SUBSET {HostKey(u) : u \in ProbeUrls}
  /\ processingImages = {}
  /\ runs = [i \in Imgs |-> <<>>]
  /\ timers = [i \in Imgs |-> NoTimers]
  /\ hist = [i \in Imgs |-> NoHist]
  /\ \E u \in ProbeUrls : genIn = [url |-> u]
  /\ genOut = ProbeIdle

\* probeUrl(url): reject at once for a host in failedCache, else set the
\* deadline timer and start the fetch
ProbeCall ==
  /\ ~genOut.called
  /\ genOut' = IF probeUrl(failedCache, genIn.url) = "cached-fail"
               THEN Settle([genOut EXCEPT !.called = TRUE], "cached-fail")
               ELSE [genOut EXCEPT !.called = TRUE, !.timer = "pending", !.fetch = "pending"]
  /\ UNCHANGED <<variant, started, img, listeners, serverCache, failedCache,
                 processingImages, runs, timers, hist, genIn>>

\* the setTimeout callback of probeUrl
DeadlineFires ==
  /\ genOut.timer = "pending"
  /\ failedCache' = failedCache \cup {HostKey(genIn.url)}
  /\ genOut' = Settle([genOut EXCEPT !.timedOut = TRUE, !.timer = "fired"], "timeout")
  /\ UNCHANGED <<variant, started, img, listeners, serverCache,
                 processingImages, runs, timers, hist, genIn>>

\* img.onload (o = "load" for an image larger than 1x1, "empty" otherwise)
\* or img.onerror (o = "error"), before or after the deadline
FetchCompletes(o) ==
  /\ genOut.fetch = "pending"
  /\ IF genOut.timedOut
     THEN /\ genOut' = [genOut EXCEPT !.fetch = o]
          /\ failedCache' = failedCache
     ELSE /\ genOut' = Settle([genOut EXCEPT !.fetch = o,
                                             !.timer = clearTimeout(@)], o)
          /\ failedCache' = IF o = "load" THEN failedCache
                            ELSE failedCache \cup {HostKey(genIn.url)}
  /\ UNCHANGED <<variant, started, img, listeners, serverCache,
                 processingImages, runs, timers, hist, genIn>>

ProbeNext ==
  \/ ProbeCall
  \/ DeadlineFires
  \/ \E o \in {"load", "empty", "error"} : FetchCompletes(o)

ProbeSpec == ProbeInit /\ [][ProbeNext]_vars

\* C25: a probe settles once: after the deadline has fired the outcome is
\* timeout and a later load or error of the fetch changes neither it nor the
\* failure cache; after the fetch has completed first the outcome is the
\* fetch's, the deadline never fires, and a host whose image loaded is not
\* put into the failure cache
C25_SettlesOnce ==
  /\ [](/\ genOut.timer = "fired" => genOut.done /\ genOut.list = <<"timeout">>
        /\ (genOut.fetch \in {"load", "empty", "error"} /\ ~genOut.timedOut)
             => /\ genOut.done /\ genOut.list = <<genOut.fetch>>
                /\ genOut.timer = "cleared"
        /\ (genOut.done /\ genOut.list = <<"load">>)
             => HostKey(genIn.url) \notin failedCache)
  /\ [][genOut.done => /\ genOut'.done
                       /\ genOut'.list = genOut.list
                       /\ failedCache' = failedCache]_vars

\* the fetch of a probe that had timed out has loaded afterwards
C25_Witness ==
  /\ genOut.timer = "fired"
  /\ genOut.fetch = "load"
  /\ genOut.list = <<"timeout">>
  /\ HostKey(genIn.url) \in failedCache

(***************************************************************************)
(* Mirror roots in the strict build                                        *)
(***************************************************************************)
\* C26: in the strict build the list generate returns holds a mirror-root
\* candidate: prefix 'n' and the resource's index on a root of FALLBACK_ROOTS
\* other than the resource's own
C26_MirrorRootsListed ==
  (genOut.done /\ variant = "kn") =>
    LET mirrors == RootsKN(FALLBACK_ROOTS_KN, genIn, 4)
    IN \E k \in 1..Len(mirrors) : \E a \in 1..Len(genOut.list) :
         genOut.list[a] = mirrors[k].url

\* what the strict build returns instead: a mirror-root address only where the
\* success cache already holds it
MirrorOnlyFromCache ==
  (genOut.done /\ variant = "kn") =>
    \A a \in 1..Len(genOut.list) :
      genOut.list[a].root # genIn.root =>
        /\ GroupKey(genIn) \in DOMAIN serverCache
        /\ a = 1
        /\ genOut.list[a].root = serverCache[GroupKey(genIn)].root

(***************************************************************************)
(* The prefixes the strict build uses                                      *)
(***************************************************************************)
KN == {"k", "n"}

\* addresses of the image's group with a reliable, the other reliable and an
\* unreliable prefix, as parseSubdomain returns them
ParsedAt03 ==
  {[prefix |-> p, number |-> 3, root |-> "mbdny", tld |-> "org", path |-> Path1] :
     p \in {"k", "n", "x"}}

\* C27: in the strict build every candidate of a pass, every candidate
\* generate returns under the success cache of the moment, every success-cache
\* entry and every address written to an image's src or srcset has prefix 'k'
\* or 'n'
C27_StrictOnlyKN ==
  /\ [](variant = "kn" =>
          /\ \A i \in Imgs : \A k \in 1..Len(runs[i]) :
               \A j \in 1..Len(runs[i][k].candidates) :
                 runs[i][k].candidates[j].prefix \in KN
          /\ \A key \in DOMAIN serverCache : serverCache[key].prefix \in KN
          /\ \A parsed \in ParsedAt03 :
               LET l == generateCandidates(variant, parsed, serverCache)
               IN \A a \in 1..Len(l) : l[a].prefix \in KN)
  /\ [][variant = "kn" =>
          \A i \in Imgs :
            /\ img'[i].src # img[i].src => img'[i].src.prefix \in KN
            /\ img'[i].srcset # img[i].srcset =>
                 \A k \in 1..Len(img'[i].srcset) :
                   SUBDOMAIN_RE(img'[i].srcset[k]) => img'[i].srcset[k].prefix \in KN]_vars

\* the strict build has swapped an image's address, and a later pass has
\* found a candidate that loads, stored it and written it to the image
C27_Witness ==
  /\ variant = "kn"
  /\ serverCache # << >>
  /\ \E i \in Imgs :
       /\ hist[i].swapped # NoUrl
       /\ hist[i].lastEnd # NoEnd
       /\ hist[i].lastEnd.result = "done"
       /\ img[i].src.prefix = "n"
       /\ HasSrcset(img[i].srcset)

(***************************************************************************)
(* The attribute handler of the observer.  The pages explored never change *)
(* an image's src or srcset themselves: every attribute record the handler *)
(* sees comes from a write of preemptiveFix, checkImage or fixImage.        *)
(***************************************************************************)
\* C28: the handler never reacts to a write of the script: no image has its
\* batoFixing or batoPreemptive flag reset to "" and no reprocessing timer
\* is pending
C28_OnlyForeignChanges ==
  \A i \in Imgs :
    /\ timers[i].mutation = 0
    /\ img[i].batoFixing # ""
    /\ img[i].batoPreemptive # ""

\* the writes the handler does pass over: those of a pass that found a
\* candidate, made with batoFixing "done" and batoFixed set
FixWritesIgnored ==
  [][\A i \in Imgs :
       (ProbeSettled(i) /\ hist'[i].lastProbe.outcome = "load")
       => /\ timers'[i].mutation = timers[i].mutation
          /\ img'[i].batoFixing = "done"
          /\ img'[i].batoPreemptive = img[i].batoPreemptive]_vars

(***************************************************************************)
(* Who writes the success cache                                            *)
(***************************************************************************)
\* C29: the success cache starts empty and changes only when a probe of a
\* pass succeeds: the step stores that candidate's prefix, index, root and
\* suffix under the group key of the address the pass is resolving, and
\* leaves every other entry as it was; no step removes an entry
C29_CacheEarnedByProbe ==
  /\ serverCache = << >>
  /\ [][serverCache' # serverCache =>
          \E i \in Imgs :
            /\ ProbeSettled(i)
            /\ hist'[i].lastProbe.outcome = "load"
            /\ LET pass == runs[i][1]
                   key == GroupKey(pass.parsed)
               IN serverCache' =
                    [k \in DOMAIN serverCache \cup {key} |->
                       IF k = key THEN CacheEntry(pass.candidates[pass.i + 1])
                       ELSE serverCache[k]]]_vars

\* a candidate on a mirror root has loaded and is stored under the group of
\* the image's own root
C29_Witness ==
  \E i \in Imgs : \E key \in DOMAIN serverCache :
    /\ hist[i].lastProbe # NoProbe
    /\ hist[i].lastProbe.outcome = "load"
    /\ serverCache[key] = CacheEntry(hist[i].lastProbe.url)
    /\ serverCache[key].root # key[1]

(***************************************************************************)
(* Writers of an image's address while a pass is in flight                 *)
(***************************************************************************)
\* C30: while an image is in processingImages its src is written only by
\* the pass in flight, when a candidate of that pass has loaded
C30_OnlyPassWritesSrc ==
  [][\A i \in Imgs :
       (i \in processingImages /\ img'[i].src # img[i].src)
       => /\ ProbeSettled(i)
          /\ hist'[i].lastProbe.outcome = "load"
          /\ img'[i].src = hist'[i].lastProbe.url]_vars

\* the writers that do not look at processingImages, both reached from a
\* timer callback while the pass waits for its probe: the revert of
\* checkImage, which restores originalSrc, and the swap of preemptiveFix,
\* which puts prefix 'n' on the address
WritersDuringPass ==
  [][\A i \in Imgs :
       (i \in processingImages /\ img'[i].src # img[i].src /\ ~ProbeSettled(i))
       => \/ img'[i].src = img[i].originalSrc
          \/ img'[i].src = [img[i].src EXCEPT !.prefix = "n"]]_vars

(***************************************************************************)
(* What a retry pass probes                                                *)
(***************************************************************************)
\* the runs of rs that are not in qs: those that have just started a probe
Started(rs, qs) ==
  {k \in 1..Len(rs) : \A j \in 1..Len(qs) : Probing(rs)[k] # Probing(qs)[j]}

\* C31: every host whose probe has failed is in the failure cache, and a
\* retry pass starts a probe only on a candidate whose host has had no failed
\* probe: after a first pass of timeouts it passes over every candidate that
\* pass probed
C31_RetryProbesOnlyFresh ==
  /\ [](\A i \in Imgs : hist[i].failedProbes \subseteq failedCache)
  /\ [][\A i \in Imgs : \A k \in Started(runs'[i], runs[i]) :
          LET pass == runs'[i][k]
          IN pass.isRetry =>
               /\ HostKey(pass.candidates[pass.i + 1]) \notin hist'[i].failedProbes
               /\ \A j \in 1..pass.i :
                    HostKey(pass.candidates[j]) \in failedCache']_vars

\* a retry pass has passed over the candidates of the first pass, each of
\* which had timed out, and has a probe outstanding on a later one
C31_Witness ==
  \E i \in Imgs :
    /\ hist[i].onlyTimeouts
    /\ Len(runs[i]) = 1
    /\ runs[i][1].isRetry
    /\ runs[i][1].i >= 1
    /\ runs[i][1].probes = 1
    /\ \A j \in 1..runs[i][1].i :
         HostKey(runs[i][1].candidates[j]) \in hist[i].failedProbes

(***************************************************************************)
(* A pass whose candidates are all passed over                             *)
(***************************************************************************)
\* a fixImage call on image i gets past its guards, and the host of every
\* candidate for the image's address is in the failure cache
AllSkipped(i, isRetry) ==
  /\ ~InFlightGuard(St, i)
  /\ ~StatusGuard(St, i, isRetry)
  /\ parseSubdomain(img[i].src) # NoParse
  /\ LET l == generateCandidates(variant, parseSubdomain(img[i].src), serverCache)
     IN \A j \in 1..Len(l) : HostKey(l[j]) \in failedCache

\* C32: a pass, first or retry, whose candidates are all passed over starts
\* no probe, keeps lastError null, sets batoFixing to "failed", schedules no
\* retry and leaves the image out of processingImages; both caches and the
\* image's address stay as they are
C32_AllSkippedFails ==
  /\ [](\A i \in Imgs : \A r \in BOOLEAN :
          AllSkipped(i, r) =>
            LET s == fixImage(variant, St, i, r)
            IN /\ s.runs = runs
               /\ s.timers = timers
               /\ s.failedCache = failedCache
               /\ s.serverCache = serverCache
               /\ s.processingImages = processingImages
               /\ s.img[i] = [img[i] EXCEPT !.batoFixing = "failed"]
               /\ s.hist[i].retries = hist[i].retries
               /\ s.hist[i].passes = hist[i].passes + 1
               /\ s.hist[i].ended = hist[i].ended + 1
               /\ s.hist[i].lastEnd.lastError = Null
               /\ s.hist[i].lastEnd.result = "failed"
               /\ s.hist[i].lastEnd.isRetry = r)
  /\ [][\A i \in Imgs :
          (/\ hist'[i].ended = hist[i].ended + 1
           /\ hist'[i].lastEnd.lastError = Null
           /\ hist'[i].lastEnd.result # "done")
          => /\ hist'[i].lastEnd.result = "failed"
             /\ hist'[i].passes = hist[i].passes + 1
             /\ hist'[i].lastProbe = hist[i].lastProbe
             /\ hist'[i].retries = hist[i].retries
             /\ timers'[i].retry <= timers[i].retry
             /\ runs'[i] = <<>>
             /\ i \notin processingImages']_vars

\* a first pass has ended failed without a probe and without an error, every
\* candidate's host being in the failure cache
C32_Witness ==
  \E i \in Imgs :
    /\ hist[i].lastEnd # NoEnd
    /\ ~hist[i].lastEnd.isRetry
    /\ hist[i].lastEnd.lastError = Null
    /\ hist[i].lastEnd.result = "failed"
    /\ hist[i].retries = 0
    /\ img[i].batoFixing = "failed"
    /\ failedCache # {}
    /\ LET l == generateCandidates(variant, parseSubdomain(img[i].src), serverCache)
       IN \A j \in 1..Len(l) : HostKey(l[j]) \in failedCache

(***************************************************************************)
(* preemptiveFix and the failure cache                                     *)
(***************************************************************************)
\* C33: when the reprocessing callback of the observer calls preemptiveFix
\* and it rewrites the image, the host of the address it writes is not in
\* the failure cache
C33_NoSwapToFailedHost ==
  [][\A i \in Imgs :
       LET s1 == Fire(St, i, "mutation")
           s2 == preemptiveFix(variant, s1, i)
       IN (MutationTimer(i) /\ PreemptiveApplies(s1, i))
          => HostKey(s2.img[i].src) \notin failedCache]_vars

\* what preemptiveFix writes does not depend on the failure cache
SwapIgnoresFailures ==
  \A i \in Imgs :
    preemptiveFix(variant, [St EXCEPT !.failedCache = {}], i).img
      = preemptiveFix(variant, St, i).img

====
